---- MODULE Spec2Model ----
(***************************************************************************)
(* Payment processing examples of the repository.                          *)
(*                                                                         *)
(*  - the Liskov example (src/unnamed/part_001, "LSP-Compliant Approach"): *)
(*    CreditCardPayment, CashPayment, GiftCardPayment and the client      *)
(*    PaymentProcessor with processPayment / processRefund;                *)
(*  - the Open/Closed example (src/Solid Principle/openClosed/index.md):   *)
(*    CreditCardPayment, PayPalPayment, UPIPayment, BitcoinPayment and the *)
(*    PaymentProcessor with process;                                       *)
(*  - the bank accounts (src/OOPS Concept/Inheritance/example.ts):         *)
(*    Account, SavingsAccount, CheckingAccount, BusinessAccount;           *)
(*  - the EventBus (src/unnamed/part_000).                                 *)
(*                                                                         *)
(* Amounts are integers (whole currency units).  Fees are kept in          *)
(* hundredths of a unit, so that amount * 0.03 is the integer amount * 3.  *)
(* TypeScript runs every method to completion on one thread: a call is one *)
(* atomic step, and concurrent callers interleave whole calls.             *)
(***************************************************************************)
EXTENDS Integers, Sequences, FiniteSets, TLC

(* ------------------------------ bounds -------------------------------- *)

\* Number of calls made by the sequential caller.
MaxOps == 3

\* Number of callers of one batch of concurrent payments.
NCallers == 4

\* Number of addInterest calls on one savings account.
MaxInterest == 1

\* Deposits are made while the balance stays within this many currency units.
MaxBalance == 1000

\* Number of on(event, handler) calls made on one EventBus.
MaxHandlers == 3

(* ------------------------- program constants -------------------------- *)

\* GiftCardPayment: private balance: number = 1000
InitialBalance == 1000

\* CreditCardPayment.calculateFees: amount * 0.03, as hundredths per unit
FeePercent == 3

\* Open/Closed CreditCardPayment.validatePayment: amount <= 10000
CreditCardLimit == 10000

\* Open/Closed UPIPayment.validatePayment: amount <= 100000
UPILimit == 100000

(* ------------------------------ inputs -------------------------------- *)

\* Amounts handed to the Liskov example's processor.
Amounts == {-1500, 0, 100, 400, 1000, 1500}

\* Amounts handed to the Open/Closed example's processor (around the limits).
LimitAmounts == {-1, 0, 1, 10000, 10001, 100000, 100001}

\* Per-call amounts of a batch, and the payment made before the batch.
BatchAmounts == {100, 250, 300, 400, 500, 1000, 1500}
SetupAmounts == {0, 100, 400, 1000}

\* const creditCard / cash / giftCard = new ...; a second gift card instance.
Methods == {"creditCard", "cash", "giftCard", "giftCard2"}

\* getPaymentType() of each instance.
Kind(m) ==
    CASE m = "creditCard" -> "CreditCard"
      [] m = "cash" -> "Cash"
      [] OTHER -> "GiftCard"

GiftCards == {m \in Methods : Kind(m) = "GiftCard"}

\* Classes of the Open/Closed example.
OCPKinds == {"CreditCardPayment", "PayPalPayment", "UPIPayment", "BitcoinPayment"}

Callers == 1 .. NCallers

(* ------------------------------- state -------------------------------- *)

VARIABLES
    balance,    \* balance[g]: GiftCardPayment.balance of gift card g
    txs,        \* the caller's record of the payments that returned true
    last,       \* the latest call and what it returned
    nops,       \* number of calls made
    batch,      \* a batch of concurrent payments on "giftCard"
    acct,       \* a bank account: its fields and the latest call on it
    bus,        \* an EventBus: its listeners and the latest call on it
    conc        \* concurrent callers: each one's call and what it returned

vars == <<balance, txs, last, nops, batch, acct, bus, conc>>

(* -------------------- Liskov example: the variants -------------------- *)

\* A variant call's outcome: what it returned, the return statement taken
\* ("why") and the balance it leaves.
Outcome(ok, why, bal) == [ok |-> ok, why |-> why, bal |-> bal]

\* Variant of isRefundable() in which CashPayment answers true as well.
isRefundable_always(k) == TRUE

\* isRefundable()
isRefundable(k) ==
    CASE k = "CreditCard" -> TRUE
      [] k = "Cash" -> FALSE
      [] k = "GiftCard" -> TRUE

\* 'refund' in payment: the classes that implement RefundablePayment
hasRefund(k) == k \in {"CreditCard", "GiftCard"}

\* 'calculateFees' in payment: the classes that implement FeeBasedPayment
hasCalculateFees(k) == k \in {"CreditCard"}

\* CreditCardPayment.calculateFees: amount * 0.03 (in hundredths)
calculateFees(amount) == amount * FeePercent

CreditCardPayment_processPayment(bal, amount) == Outcome(TRUE, "ok", bal)

CashPayment_processPayment(bal, amount) == Outcome(TRUE, "ok", bal)

\* Variant of GiftCardPayment.processPayment without the balance check.
GiftCardPayment_processPayment_noCheck(bal, amount) ==
    IF amount <= 0 THEN Outcome(FALSE, "invalidAmount", bal)
    ELSE Outcome(TRUE, "ok", bal - amount)

\* Variant of GiftCardPayment.processPayment testing amount >= balance.
GiftCardPayment_processPayment_strict(bal, amount) ==
    IF amount <= 0 THEN Outcome(FALSE, "invalidAmount", bal)
    ELSE IF amount >= bal THEN Outcome(FALSE, "insufficientBalance", bal)
    ELSE Outcome(TRUE, "ok", bal - amount)

\* Variant of GiftCardPayment.processPayment that debits before it tests.
GiftCardPayment_processPayment_debitFirst(bal, amount) ==
    IF amount <= 0 THEN Outcome(FALSE, "invalidAmount", bal)
    ELSE IF amount > bal THEN Outcome(FALSE, "insufficientBalance", bal - amount)
    ELSE Outcome(TRUE, "ok", bal - amount)

GiftCardPayment_processPayment(bal, amount) ==
    IF amount <= 0 THEN Outcome(FALSE, "invalidAmount", bal)
    ELSE IF amount > bal THEN Outcome(FALSE, "insufficientBalance", bal)
    ELSE Outcome(TRUE, "ok", bal - amount)

CreditCardPayment_refund(bal, amount) == Outcome(TRUE, "ok", bal)

GiftCardPayment_refund(bal, amount) == Outcome(TRUE, "ok", bal + amount)

\* payment.processPayment(amount), dispatched on the instance's class
processPayment(k, bal, amount) ==
    CASE k = "CreditCard" -> CreditCardPayment_processPayment(bal, amount)
      [] k = "Cash" -> CashPayment_processPayment(bal, amount)
      [] k = "GiftCard" -> GiftCardPayment_processPayment(bal, amount)

\* (payment as RefundablePayment).refund(amount); on an instance of a class
\* without refund the call throws (TypeError: payment.refund is not a
\* function): nothing is returned, and "why" names the exception.
refund(k, bal, amount) ==
    CASE k = "CreditCard" -> CreditCardPayment_refund(bal, amount)
      [] k = "GiftCard" -> GiftCardPayment_refund(bal, amount)
      [] OTHER -> Outcome(FALSE, "TypeError", bal)

(* ------------------- Liskov example: the processor -------------------- *)

\* A processor call's result: the boolean returned, the return statement
\* taken, the balance left, the fees computed (hundredths; 0 when none were)
\* and the variant methods invoked, in order.
Result(ok, why, bal, fees, calls) ==
    [ok |-> ok, why |-> why, bal |-> bal, fees |-> fees, calls |-> calls]

PaymentProcessor_processPayment(k, bal, amount) ==
    LET r == processPayment(k, bal, amount) IN
    IF r.ok /\ hasCalculateFees(k)
    THEN Result(TRUE, r.why, r.bal, calculateFees(amount),
                <<"processPayment", "calculateFees">>)
    ELSE Result(r.ok, r.why, r.bal, 0, <<"processPayment">>)

\* Variant of processRefund written as the client of the first design:
\* payment.refund(amount) with no capability test, a class without its own
\* refund inheriting one that returns true.
PaymentProcessor_processRefund_inherited(k, bal, amount) ==
    IF hasRefund(k)
    THEN LET r == refund(k, bal, amount) IN
         Result(r.ok, r.why, r.bal, 0, <<"refund">>)
    ELSE Result(TRUE, "ok", bal, 0, <<"refund">>)

\* Variant of processRefund written against the first design of the
\* tutorial, in which CashPayment.refund throws instead of being absent.
PaymentProcessor_processRefund_throwing(k, bal, amount) ==
    IF hasRefund(k)
    THEN LET r == refund(k, bal, amount) IN
         Result(r.ok, r.why, r.bal, 0, <<"refund">>)
    ELSE Result(FALSE, "Error", bal, 0, <<"refund">>)

\* Variant of processRefund that calls refund with neither of its two tests.
PaymentProcessor_processRefund_unchecked(k, bal, amount) ==
    LET r == refund(k, bal, amount) IN
    Result(r.ok, r.why, r.bal, 0, <<"refund">>)

PaymentProcessor_processRefund(k, bal, amount) ==
    IF ~isRefundable(k)
    THEN Result(FALSE, "notRefundable", bal, 0, <<"isRefundable">>)
    ELSE IF hasRefund(k)
    THEN LET r == refund(k, bal, amount) IN
         Result(r.ok, r.why, r.bal, 0, <<"isRefundable", "refund">>)
    ELSE Result(FALSE, "noRefundMethod", bal, 0, <<"isRefundable">>)

(* ---------------- Open/Closed example: variants, processor ------------ *)

\* Variant of CreditCardPayment.validatePayment testing amount < 10000.
CreditCardPayment_validatePayment_below(amount) ==
    amount > 0 /\ amount < CreditCardLimit

CreditCardPayment_validatePayment(amount) == amount > 0 /\ amount <= CreditCardLimit

PayPalPayment_validatePayment(amount) == amount > 0

UPIPayment_validatePayment(amount) == amount > 0 /\ amount <= UPILimit

\* Variant of BitcoinPayment.validatePayment with the credit card's limit.
BitcoinPayment_validatePayment_limited(amount) ==
    amount > 0 /\ amount <= CreditCardLimit

BitcoinPayment_validatePayment(amount) == amount > 0

\* method.validatePayment(amount), dispatched on the instance's class
validatePayment(k, amount) ==
    CASE k = "CreditCardPayment" -> CreditCardPayment_validatePayment(amount)
      [] k = "PayPalPayment" -> PayPalPayment_validatePayment(amount)
      [] k = "UPIPayment" -> UPIPayment_validatePayment(amount)
      [] k = "BitcoinPayment" -> BitcoinPayment_validatePayment(amount)

\* The conjunct of validatePayment that rejected the amount.
rejectedBy(amount) == IF amount > 0 THEN "limitExceeded" ELSE "invalidAmount"

\* Variant of process that calls processPayment before it validates.
PaymentProcessor_process_eager(k, amount) ==
    IF validatePayment(k, amount)
    THEN Result(TRUE, "ok", 0, 0, <<"processPayment", "validatePayment">>)
    ELSE Result(FALSE, rejectedBy(amount), 0, 0,
                <<"processPayment", "validatePayment">>)

\* PaymentProcessor.process(method, amount)
PaymentProcessor_process(k, amount) ==
    IF validatePayment(k, amount)
    THEN Result(TRUE, "ok", 0, 0, <<"validatePayment", "processPayment">>)
    ELSE Result(FALSE, rejectedBy(amount), 0, 0, <<"validatePayment">>)

(* ------------------------------ actions ------------------------------- *)

BalanceOf(m) == IF m \in GiftCards THEN balance[m] ELSE 0

\* Variant of the balance field declared static: one balance for all cards.
SetBalance_shared(m, b) ==
    IF m \in GiftCards THEN [g \in GiftCards |-> b] ELSE balance

SetBalance(m, b) == IF m \in GiftCards THEN [balance EXCEPT ![m] = b] ELSE balance

Call(sys, op, m, tx, amount, r) ==
    [sys |-> sys, op |-> op, method |-> m, tx |-> tx, amount |-> amount,
     ok |-> r.ok, why |-> r.why, fees |-> r.fees, calls |-> r.calls]

NoCall ==
    [sys |-> "none", op |-> "none", method |-> "none", tx |-> 0, amount |-> 0,
     ok |-> FALSE, why |-> "none", fees |-> 0, calls |-> <<>>]

\* No account is open, no event bus is in use.
NoAccount ==
    [type |-> "none", balance |-> 0, interestRate |-> 0, overdraftLimit |-> 0,
     transactionCount |-> 0, interests |-> 0, op |-> "none", amount |-> 0,
     ok |-> FALSE]

NoBus == [listeners |-> [e \in {} |-> <<>>], op |-> "none", event |-> "none", handler |-> "none",
          called |-> <<>>, threw |-> FALSE]

\* No concurrent caller has a call to make.
NoCalls ==
    [c \in Callers |-> [op |-> "none", method |-> "none", amount |-> 0,
                        res |-> "idle"]]

NoBatch == [phase |-> "off", amt |-> 0, B |-> 0, res |-> [c \in Callers |-> "idle"]]

Init ==
    /\ balance = [g \in GiftCards |-> InitialBalance]
    /\ txs = <<>>
    /\ last = NoCall
    /\ nops = 0
    /\ batch = NoBatch
    /\ acct = NoAccount
    /\ bus = NoBus
    /\ conc = NoCalls

\* processor.processPayment(m, amount); the caller records a payment that
\* returned true.
Process(m, amount) ==
    /\ nops < MaxOps
    /\ LET r == PaymentProcessor_processPayment(Kind(m), BalanceOf(m), amount) IN
       /\ balance' = SetBalance(m, r.bal)
       /\ txs' = IF r.ok
                 THEN Append(txs, [method |-> m, amount |-> amount, fees |-> r.fees,
                                   status |-> "Completed", refunds |-> 0,
                                   refunded |-> 0])
                 ELSE txs
       /\ last' = Call("lsp", "process", m, IF r.ok THEN Len(txs) + 1 ELSE 0, amount, r)
    /\ nops' = nops + 1
    /\ UNCHANGED <<batch, acct, bus, conc>>

\* processor.processRefund(m, amount), on any method at any time.  The
\* caller makes it for the payment of record i, made with m, or for no
\* payment at all (i = 0), and marks the record when the refund returned
\* true.
Refund(m, i, amount) ==
    /\ nops < MaxOps
    /\ i \in 0 .. Len(txs)
    /\ i > 0 => txs[i].method = m
    /\ LET r == PaymentProcessor_processRefund(Kind(m), BalanceOf(m), amount) IN
       /\ balance' = SetBalance(m, r.bal)
       /\ txs' = IF r.ok /\ i > 0
                 THEN [txs EXCEPT ![i].status = "Refunded",
                                  ![i].refunds = @ + 1,
                                  ![i].refunded = @ + amount]
                 ELSE txs
       /\ last' = Call("lsp", "refund", m, i, amount, r)
    /\ nops' = nops + 1
    /\ UNCHANGED <<batch, acct, bus, conc>>

\* new PaymentProcessor().process(new K(), amount) of the Open/Closed example
Checkout(k, amount) ==
    /\ nops < MaxOps
    /\ last' = Call("ocp", "process", k, 0, amount, PaymentProcessor_process(k, amount))
    /\ nops' = nops + 1
    /\ UNCHANGED <<balance, txs, batch, acct, bus, conc>>

Next ==
    \/ \E m \in Methods, a \in Amounts : Process(m, a)
    \/ \E m \in Methods, i \in 0 .. MaxOps, a \in Amounts : Refund(m, i, a)
    \/ \E k \in OCPKinds, a \in LimitAmounts : Checkout(k, a)

Spec == Init /\ [][Next]_vars

(* -------------- a batch of concurrent payments on one card ------------ *)

InitBatch ==
    /\ balance = [g \in GiftCards |-> InitialBalance]
    /\ txs = <<>>
    /\ last = NoCall
    /\ nops = 0
    /\ \E a \in BatchAmounts :
         batch = [phase |-> "setup", amt |-> a, B |-> 0,
                  res |-> [c \in Callers |-> "pending"]]
    /\ acct = NoAccount
    /\ bus = NoBus
    /\ conc = NoCalls

\* One earlier payment brings the card to the balance B the batch starts from.
BatchSetup(p) ==
    /\ batch.phase = "setup"
    /\ LET r == PaymentProcessor_processPayment("GiftCard", balance["giftCard"], p) IN
       /\ balance' = [balance EXCEPT !["giftCard"] = r.bal]
       /\ batch' = [batch EXCEPT !.phase = "run", !.B = r.bal]
    /\ UNCHANGED <<txs, last, nops, acct, bus, conc>>

\* Caller c's processPayment(giftCard, amt) runs (to completion).
BatchCall(c) ==
    /\ batch.phase = "run"
    /\ batch.res[c] = "pending"
    /\ LET r == PaymentProcessor_processPayment("GiftCard", balance["giftCard"],
                                                batch.amt) IN
       /\ balance' = [balance EXCEPT !["giftCard"] = r.bal]
       /\ batch' = [batch EXCEPT !.res[c] = r.why]
    /\ UNCHANGED <<txs, last, nops, acct, bus, conc>>

NextBatch ==
    \/ \E p \in SetupAmounts : BatchSetup(p)
    \/ \E c \in Callers : BatchCall(c)

SpecBatch == InitBatch /\ [][NextBatch]_vars

(* ---------- concurrent process and refund calls on the methods -------- *)

\* The calls the concurrent callers make.
ConcurrentCalls ==
    {[op |-> "process", method |-> "giftCard", amount |-> 600],
     [op |-> "refund", method |-> "giftCard", amount |-> 400],
     [op |-> "process", method |-> "giftCard2", amount |-> 600],
     [op |-> "refund", method |-> "cash", amount |-> 400]}

InitConc ==
    /\ balance = [g \in GiftCards |-> InitialBalance]
    /\ txs = <<>>
    /\ last = NoCall
    /\ nops = 0
    /\ batch = NoBatch
    /\ acct = NoAccount
    /\ bus = NoBus
    /\ \E calls \in [Callers -> ConcurrentCalls] :
         conc = [c \in Callers |->
                   [op |-> calls[c].op, method |-> calls[c].method,
                    amount |-> calls[c].amount, res |-> "pending"]]

\* Caller c's call runs (to completion): the methods are synchronous, so the
\* call needs nothing but to be scheduled.  res is the return statement it
\* ended with; a call that ends in an exception has not returned.
ConcCall(c) ==
    /\ conc[c].res = "pending"
    /\ LET m == conc[c].method
           r == IF conc[c].op = "process"
                THEN PaymentProcessor_processPayment(Kind(m), BalanceOf(m),
                                                     conc[c].amount)
                ELSE PaymentProcessor_processRefund(Kind(m), BalanceOf(m),
                                                    conc[c].amount) IN
       /\ balance' = SetBalance(m, r.bal)
       /\ conc' = [conc EXCEPT ![c].res = r.why]
    /\ UNCHANGED <<txs, last, nops, batch, acct, bus>>

NextConc == \E c \in Callers : ConcCall(c)

\* The callers under a fair scheduler: a call that can run is run.
SpecConc ==
    /\ InitConc
    /\ [][NextConc]_vars
    /\ \A c \in Callers : WF_vars(ConcCall(c))

(* ---------------------------- bank accounts --------------------------- *)

\* Money of the bank accounts is counted in 1/Unit of a currency unit, so
\* that the 2.50 fee and MaxInterest applications of a whole percentage are
\* exact.
Unit == 100 ^ MaxInterest

\* SavingsAccount: this.minimumBalance = 500
minimumBalance == 500 * Unit

\* CheckingAccount: this.transactionFee = 2.50
transactionFee == (5 * Unit) \div 2

\* BusinessAccount: this.monthlyTransactionLimit = 100
monthlyTransactionLimit == 100

\* SavingsAccount constructor: interestRate = 0.03 unless given, in percent
DefaultInterestRate == 3

\* CheckingAccount constructor: overdraftLimit = 1000 unless given
DefaultOverdraftLimit == 1000

\* Interest rates a savings account is constructed with, in percent.
InterestRates == {-10, 0, DefaultInterestRate}

\* The accounts constructed: new SavingsAccount(.., balance, rate),
\* new CheckingAccount(.., balance), new BusinessAccount(.., balance, limit).
Openings ==
    {[type |-> "Savings", balance |-> b * Unit, interestRate |-> r,
      overdraftLimit |-> 0] : b \in {500, 1000}, r \in InterestRates}
    \cup
    {[type |-> "Checking", balance |-> b * Unit, interestRate |-> 0,
      overdraftLimit |-> DefaultOverdraftLimit * Unit] : b \in {0, 500}}
    \cup
    {[type |-> "Business", balance |-> 0, interestRate |-> 0,
      overdraftLimit |-> 500 * Unit]}

DepositAmounts == {-100 * Unit, 0, 100 * Unit}

\* Amounts withdrawn: 47.50 costs a checking account 50 with the fee.
WithdrawAmounts(type) ==
    IF type = "Savings"
    THEN {-100 * Unit, 0, 100 * Unit, 600 * Unit}
    ELSE {-100 * Unit, 0, (95 * Unit) \div 2, 5000 * Unit}

\* What a withdraw returns and the fields it leaves.
Withdrawn(ok, bal, count) == [ok |-> ok, balance |-> bal, transactionCount |-> count]

\* Account.deposit
Account_deposit(bal, amount) == IF amount > 0 THEN bal + amount ELSE bal

\* Variant of SavingsAccount.withdraw that only refuses to overdraw.
SavingsAccount_withdraw_noMinimum(a, amount) ==
    IF amount <= 0 THEN Withdrawn(FALSE, a.balance, a.transactionCount)
    ELSE IF a.balance - amount < 0
    THEN Withdrawn(FALSE, a.balance, a.transactionCount)
    ELSE Withdrawn(TRUE, a.balance - amount, a.transactionCount)

\* SavingsAccount.withdraw
SavingsAccount_withdraw(a, amount) ==
    IF amount <= 0 THEN Withdrawn(FALSE, a.balance, a.transactionCount)
    ELSE IF a.balance - amount < minimumBalance
    THEN Withdrawn(FALSE, a.balance, a.transactionCount)
    ELSE Withdrawn(TRUE, a.balance - amount, a.transactionCount)

\* SavingsAccount.addInterest: balance += balance * interestRate
SavingsAccount_addInterest(bal, rate) == bal + (bal * rate) \div 100

\* Variant of CheckingAccount.withdraw that takes the fee before it tests the
\* overdraft limit.
CheckingAccount_withdraw_feeFirst(a, amount) ==
    IF amount <= 0 THEN Withdrawn(FALSE, a.balance, a.transactionCount)
    ELSE IF a.balance - (amount + transactionFee) < -a.overdraftLimit
    THEN Withdrawn(FALSE, a.balance - transactionFee, a.transactionCount)
    ELSE Withdrawn(TRUE, a.balance - (amount + transactionFee), a.transactionCount)

\* CheckingAccount.withdraw
CheckingAccount_withdraw(a, amount) ==
    IF amount <= 0 THEN Withdrawn(FALSE, a.balance, a.transactionCount)
    ELSE IF a.balance - (amount + transactionFee) < -a.overdraftLimit
    THEN Withdrawn(FALSE, a.balance, a.transactionCount)
    ELSE Withdrawn(TRUE, a.balance - (amount + transactionFee), a.transactionCount)

\* Variant of BusinessAccount.withdraw testing transactionCount > limit.
BusinessAccount_withdraw_above(a, amount) ==
    IF a.transactionCount > monthlyTransactionLimit
    THEN Withdrawn(FALSE, a.balance, a.transactionCount)
    ELSE LET success == CheckingAccount_withdraw(a, amount) IN
         IF success.ok
         THEN Withdrawn(TRUE, success.balance, a.transactionCount + 1)
         ELSE success

\* BusinessAccount.withdraw
BusinessAccount_withdraw(a, amount) ==
    IF a.transactionCount >= monthlyTransactionLimit
    THEN Withdrawn(FALSE, a.balance, a.transactionCount)
    ELSE LET success == CheckingAccount_withdraw(a, amount) IN
         IF success.ok
         THEN Withdrawn(TRUE, success.balance, a.transactionCount + 1)
         ELSE success

\* account.withdraw(amount): the method of the account's class
withdraw(a, amount) ==
    CASE a.type = "Savings" -> SavingsAccount_withdraw(a, amount)
      [] a.type = "Checking" -> CheckingAccount_withdraw(a, amount)
      [] a.type = "Business" -> BusinessAccount_withdraw(a, amount)

\* CheckingAccount.writeCheck: return this.withdraw(amount)
CheckingAccount_writeCheck(a, amount) == withdraw(a, amount)

\* The account after a call op(amount) that returned ok.
AfterCall(a, op, amount, ok) == [a EXCEPT !.op = op, !.amount = amount, !.ok = ok]

InitBank ==
    /\ balance = [g \in GiftCards |-> InitialBalance]
    /\ txs = <<>>
    /\ last = NoCall
    /\ nops = 0
    /\ batch = NoBatch
    /\ bus = NoBus
    /\ conc = NoCalls
    /\ \E o \in Openings :
         acct = [NoAccount EXCEPT !.type = o.type, !.balance = o.balance,
                                  !.interestRate = o.interestRate,
                                  !.overdraftLimit = o.overdraftLimit]

\* account.deposit(amount)
Deposit(amount) ==
    /\ acct.balance + amount <= MaxBalance * Unit
    /\ acct' = AfterCall([acct EXCEPT !.balance = Account_deposit(@, amount)],
                         "deposit", amount, TRUE)
    /\ UNCHANGED <<balance, txs, last, nops, batch, bus, conc>>

\* account.withdraw(amount)
Withdraw(amount) ==
    /\ LET r == withdraw(acct, amount) IN
       acct' = AfterCall([acct EXCEPT !.balance = r.balance,
                                      !.transactionCount = r.transactionCount],
                         "withdraw", amount, r.ok)
    /\ UNCHANGED <<balance, txs, last, nops, batch, bus, conc>>

\* account.writeCheck(amount), on a CheckingAccount or a BusinessAccount
WriteCheck(amount) ==
    /\ acct.type \in {"Checking", "Business"}
    /\ LET r == CheckingAccount_writeCheck(acct, amount) IN
       acct' = AfterCall([acct EXCEPT !.balance = r.balance,
                                      !.transactionCount = r.transactionCount],
                         "writeCheck", amount, r.ok)
    /\ UNCHANGED <<balance, txs, last, nops, batch, bus, conc>>

\* account.addInterest(), on a SavingsAccount
AddInterest ==
    /\ acct.type = "Savings"
    /\ acct.interests < MaxInterest
    /\ acct' = AfterCall([acct EXCEPT
                            !.balance = SavingsAccount_addInterest(@, acct.interestRate),
                            !.interests = @ + 1],
                         "addInterest", 0, TRUE)
    /\ UNCHANGED <<balance, txs, last, nops, batch, bus, conc>>

\* account.resetMonthlyCounters(), on a BusinessAccount
ResetMonthlyCounters ==
    /\ acct.type = "Business"
    /\ acct' = AfterCall([acct EXCEPT !.transactionCount = 0],
                         "resetMonthlyCounters", 0, TRUE)
    /\ UNCHANGED <<balance, txs, last, nops, batch, bus, conc>>

NextBank ==
    \/ \E a \in DepositAmounts : Deposit(a)
    \/ \E a \in WithdrawAmounts(acct.type) : Withdraw(a)
    \/ \E a \in WithdrawAmounts(acct.type) : WriteCheck(a)
    \/ AddInterest
    \/ ResetMonthlyCounters

SpecBank == InitBank /\ [][NextBank]_vars

(* ------------------------------ event bus ----------------------------- *)

Events == {"a", "b"}

\* The handlers registered: h1 and h2 return, boom throws.
Handlers == {"h1", "h2", "boom"}

Throws(h) == h = "boom"

\* this.listeners.get(event) || []
Get(listeners, event) ==
    IF event \in DOMAIN listeners THEN listeners[event] ELSE <<>>

\* Variant of on that puts the new handler first (unshift).
EventBus_on_prepend(listeners, event, handler) ==
    [e \in DOMAIN listeners \cup {event} |->
        IF e = event THEN <<handler>> \o Get(listeners, event) ELSE listeners[e]]

\* EventBus.on: handlers.push(handler); this.listeners.set(event, handlers)
EventBus_on(listeners, event, handler) ==
    [e \in DOMAIN listeners \cup {event} |->
        IF e = event THEN Append(Get(listeners, event), handler) ELSE listeners[e]]

\* handlers.forEach(handler => handler(data)): the handlers called, in order;
\* a handler that throws ends the loop.
RECURSIVE forEach(_)
forEach(handlers) ==
    IF handlers = <<>> THEN <<>>
    ELSE IF Throws(Head(handlers)) THEN <<Head(handlers)>>
    ELSE <<Head(handlers)>> \o forEach(Tail(handlers))

\* EventBus.emit: the handlers it called and whether an exception left it
EventBus_emit(listeners, event) ==
    LET called == forEach(Get(listeners, event)) IN
    [called |-> called,
     threw |-> called # <<>> /\ Throws(called[Len(called)])]

RECURSIVE Registrations(_, _)
Registrations(listeners, events) ==
    IF events = {} THEN 0
    ELSE LET e == CHOOSE x \in events : TRUE IN
         Len(Get(listeners, e)) + Registrations(listeners, events \ {e})

InitBus ==
    /\ balance = [g \in GiftCards |-> InitialBalance]
    /\ txs = <<>>
    /\ last = NoCall
    /\ nops = 0
    /\ batch = NoBatch
    /\ acct = NoAccount
    /\ bus = NoBus
    /\ conc = NoCalls

\* bus.on(event, handler)
On(event, handler) ==
    /\ Registrations(bus.listeners, Events) < MaxHandlers
    /\ bus' = [listeners |-> EventBus_on(bus.listeners, event, handler),
               op |-> "on", event |-> event, handler |-> handler,
               called |-> <<>>, threw |-> FALSE]
    /\ UNCHANGED <<balance, txs, last, nops, batch, acct, conc>>

\* bus.emit(event, data)
Emit(event) ==
    /\ LET r == EventBus_emit(bus.listeners, event) IN
       bus' = [listeners |-> bus.listeners,
               op |-> "emit", event |-> event, handler |-> "none",
               called |-> r.called, threw |-> r.threw]
    /\ UNCHANGED <<balance, txs, last, nops, batch, acct, conc>>

NextBus ==
    \/ \E e \in Events, h \in Handlers : On(e, h)
    \/ \E e \in Events : Emit(e)

SpecBus == InitBus /\ [][NextBus]_vars

(* ------------------------------ properties ---------------------------- *)

\* A step of the sequential caller is a call: last' describes it.
IsCall(op) == nops' # nops /\ last'.op = op

\* The class of the instance a call was made on.
KindOfCall(c) == IF c.sys = "ocp" THEN c.method ELSE Kind(c.method)

Invoked(c, name) == \E j \in 1 .. Len(c.calls) : c.calls[j] = name

\* The ceiling a kind declares: the Open/Closed credit card and UPI limits;
\* the other kinds declare none.
WithinCeiling(k, amount) ==
    CASE k = "CreditCardPayment" -> amount <= CreditCardLimit
      [] k = "UPIPayment" -> amount <= UPILimit
      [] OTHER -> TRUE

\* C1: the balance of every gift card is never negative, whatever process
\* and refund calls (with any amounts) were made.
C1_BalanceNeverNegative == \A g \in GiftCards : balance[g] >= 0

BatchDone == batch.phase = "run" /\ \A c \in Callers : batch.res[c] # "pending"

Successes == {c \in Callers : batch.res[c] = "ok"}

\* C2: N concurrent payments of A on one gift card with balance B, N*A > B,
\* end with exactly floor(B/A) successes, the others failing for insufficient
\* balance; the balance is B minus the successful debits and never negative.
C2_ConcurrentDebits ==
    /\ balance["giftCard"] >= 0
    /\ batch.phase = "run" =>
         balance["giftCard"] = batch.B - Cardinality(Successes) * batch.amt
    /\ (BatchDone /\ NCallers * batch.amt > batch.B) =>
         /\ Cardinality(Successes) = batch.B \div batch.amt
         /\ \A c \in Callers \ Successes : batch.res[c] = "insufficientBalance"

C2_Witness ==
    /\ BatchDone
    /\ NCallers * batch.amt > batch.B
    /\ Cardinality(Successes) >= 2
    /\ \E c \in Callers : batch.res[c] = "insufficientBalance"
    /\ balance["giftCard"] > 0

\* A refund call, of a positive amount, for a payment of a positive amount
\* that an earlier refund of a positive amount has marked Refunded.
IsSecondRefund ==
    /\ IsCall("refund") /\ last'.amount > 0
    /\ last'.tx > 0
    /\ txs[last'.tx].status = "Refunded"
    /\ txs[last'.tx].amount > 0 /\ txs[last'.tx].refunded > 0

\* C3: a refund of a payment that was already refunded fails as a duplicate
\* and leaves the balances and the payment records unchanged.
C3_RefundIdempotent ==
    [][IsSecondRefund
         => (~last'.ok /\ last'.why = "duplicateRefund"
             /\ balance' = balance /\ txs' = txs)]_vars

\* C4: of several refund calls for one payment, run in any order, exactly one
\* succeeds and credits the balance: a refund call for a gift card payment
\* that is already Refunded credits nothing and is counted for no refund.
C4_RefundCreditedOnce ==
    [][(IsSecondRefund /\ last'.method \in GiftCards)
         => (balance'[last'.method] = balance[last'.method]
             /\ txs'[last'.tx].refunds = 1)]_vars

\* C5: the amount refunded for a payment never exceeds the payment's amount.
C5_RefundWithinAmount ==
    \A i \in 1 .. Len(txs) :
        txs[i].amount > 0 => txs[i].refunded <= txs[i].amount

\* C6: a refund on a payment made in cash fails as not refundable, whatever
\* the amount and the state, without the variant's refund being invoked and
\* without changing a balance or a payment record.
C6_CashRefundGated ==
    [][(IsCall("refund") /\ Kind(last'.method) = "Cash")
         => (~last'.ok /\ last'.why = "notRefundable"
             /\ ~Invoked(last', "refund")
             /\ balance' = balance /\ txs' = txs)]_vars

C6_Witness ==
    /\ last.op = "refund" /\ last.method = "cash" /\ ~last.ok
    /\ last.tx > 0
    /\ txs[last.tx].status = "Completed"

\* C7: a kind without calculateFees is never asked for fees and is charged
\* none; a kind with calculateFees is charged its result, which is not
\* negative.
C7_Fees ==
    /\ (last.sys = "lsp" /\ last.op = "process") =>
         IF hasCalculateFees(Kind(last.method))
         THEN last.ok => (last.fees = calculateFees(last.amount) /\ last.fees >= 0)
         ELSE last.fees = 0 /\ ~Invoked(last, "calculateFees")
    /\ \A i \in 1 .. Len(txs) :
         /\ txs[i].fees >= 0
         /\ ~hasCalculateFees(Kind(txs[i].method)) => txs[i].fees = 0

\* C8 as stated: every payment of a positive amount within the kind's ceiling
\* succeeds and debits a gift card by the amount.
C8_ProcessSucceeds_Original ==
    [][(IsCall("process") /\ last'.amount > 0
          /\ WithinCeiling(KindOfCall(last'), last'.amount))
         => (last'.ok
             /\ (last'.method \in GiftCards =>
                   balance'[last'.method] = balance[last'.method] - last'.amount))]_vars

\* C8, amended: every payment of a positive amount within the kind's ceiling
\* and, on a gift card, not above its balance, succeeds and debits a gift
\* card by exactly the amount.
C8_ProcessSucceeds ==
    [][(IsCall("process") /\ last'.amount > 0
          /\ WithinCeiling(KindOfCall(last'), last'.amount)
          /\ (last'.method \in GiftCards => last'.amount <= balance[last'.method]))
         => (last'.ok
             /\ (last'.method \in GiftCards =>
                   balance'[last'.method] = balance[last'.method] - last'.amount))]_vars

C8_Witness ==
    /\ last.op = "process" /\ last.method = "giftCard" /\ last.ok
    /\ last.amount = InitialBalance
    /\ balance["giftCard"] = 0

\* C9: a payment of an amount <= 0 fails as an invalid amount, one above the
\* kind's ceiling fails as over the limit, and no other amount is rejected
\* by validation.
C9_Validation ==
    last.op = "process" =>
        /\ last.amount <= 0 => (~last.ok /\ last.why = "invalidAmount")
        /\ (last.amount > 0 /\ ~WithinCeiling(KindOfCall(last), last.amount))
             => (~last.ok /\ last.why = "limitExceeded")
        /\ (last.amount > 0 /\ WithinCeiling(KindOfCall(last), last.amount))
             => last.why \notin {"invalidAmount", "limitExceeded"}

\* C10: a payment fails for insufficient balance only on a gift card and only
\* when the amount is above its balance; on the other kinds processPayment
\* never fails (Liskov example: it always returns true; Open/Closed example:
\* it is invoked, and process returns true, once validatePayment accepts).
C10_InsufficientOnlyGiftCard ==
    [][IsCall("process") =>
         /\ last'.why = "insufficientBalance" =>
              (last'.method \in GiftCards /\ last'.amount > balance[last'.method])
         /\ (last'.sys = "lsp" /\ last'.method \notin GiftCards) => last'.ok
         /\ (last'.sys = "ocp" /\ last'.why \notin {"invalidAmount", "limitExceeded"})
              => (last'.ok /\ Invoked(last', "processPayment"))]_vars

C10_Witness ==
    /\ last.op = "process" /\ last.method = "giftCard"
    /\ ~last.ok /\ last.why = "insufficientBalance"
    /\ last.amount > balance["giftCard"]

\* The kinds that have the Refundable capability (RefundablePayment).
Refundable(k) == k \in {"CreditCard", "GiftCard"}

\* C11: a payment is marked Refunded only if its method is refundable.
C11_RefundedOnlyRefundable ==
    \A i \in 1 .. Len(txs) :
        txs[i].status = "Refunded" => Refundable(Kind(txs[i].method))

C11_Witness ==
    /\ \E i \in 1 .. Len(txs) :
         txs[i].method = "giftCard" /\ txs[i].status = "Refunded"
    /\ \E i \in 1 .. Len(txs) :
         txs[i].method = "cash" /\ txs[i].status = "Completed"

\* C12: a payment record is created only by a successful process call, as
\* Completed; its status changes only to Refunded, only by a successful
\* refund call, and at most once; a Refunded record stays Refunded, and no
\* record's method or amount changes.
C12_TransactionLifecycle ==
    [][/\ Len(txs') >= Len(txs)
       /\ Len(txs') > Len(txs) =>
            /\ IsCall("process") /\ last'.ok
            /\ Len(txs') = Len(txs) + 1
            /\ txs'[Len(txs')].status = "Completed"
       /\ \A i \in 1 .. Len(txs) :
            /\ txs'[i].method = txs[i].method
            /\ txs'[i].amount = txs[i].amount
            /\ txs[i].status = "Refunded" => txs'[i].status = "Refunded"
            /\ txs'[i].status # txs[i].status =>
                 (IsCall("refund") /\ last'.ok /\ txs'[i].status = "Refunded")
            /\ (txs[i].amount > 0 /\ last'.amount > 0 /\ txs[i].refunded > 0)
                 => txs'[i].refunds <= 1]_vars

\* C13: on a gift card with balance B a payment of a, 0 < a <= B, leaves
\* B - a; the refund of a for it succeeds, restores B and marks the payment
\* Refunded; every refund for it after that fails as a duplicate.
C13_ProcessRefundRoundTrip ==
    [][/\ (IsCall("process") /\ last'.method \in GiftCards
             /\ last'.amount > 0 /\ last'.amount <= balance[last'.method])
          => (last'.ok
              /\ balance'[last'.method] = balance[last'.method] - last'.amount)
       /\ (IsCall("refund") /\ last'.method \in GiftCards
             /\ last'.tx > 0
             /\ txs[last'.tx].amount > 0
             /\ txs[last'.tx].status = "Completed"
             /\ last'.amount = txs[last'.tx].amount)
          => (last'.ok
              /\ balance'[last'.method] = balance[last'.method] + last'.amount
              /\ txs'[last'.tx].status = "Refunded")
       /\ (IsCall("refund") /\ last'.method \in GiftCards
             /\ last'.tx > 0
             /\ txs[last'.tx].amount > 0
             /\ txs[last'.tx].status = "Refunded"
             /\ txs[last'.tx].refunded = txs[last'.tx].amount)
          => (~last'.ok /\ last'.why = "duplicateRefund")]_vars

\* What a call can end with: true, or false from one of the return
\* statements of the processors and variants.  A thrown exception is none
\* of them.
Returns ==
    {"ok", "invalidAmount", "insufficientBalance", "limitExceeded",
     "notRefundable", "noRefundMethod"}

\* C14: every process and refund call, on every kind, with every amount and
\* in every state, ends by returning true or false; none ends in an
\* exception.
C14_NoException ==
    last.op # "none" =>
        /\ last.why \in Returns
        /\ last.ok \in BOOLEAN
        /\ last.ok <=> last.why = "ok"

C14_Witness ==
    /\ last.op = "refund" /\ last.method = "cash"
    /\ last.amount < 0 /\ ~last.ok
    /\ \E g \in GiftCards : balance[g] < InitialBalance

\* C17: a refund call ends with success or with one of the three refund
\* errors, and succeeds only for a payment that is recorded, still
\* Completed, and made with a refundable method.
C17_RefundResult ==
    [][IsCall("refund") =>
         /\ last'.why \in {"ok", "notRefundable", "duplicateRefund",
                           "refundExceedsAmount"}
         /\ last'.ok => (/\ last'.tx \in 1 .. Len(txs)
                         /\ txs[last'.tx].status = "Completed"
                         /\ Refundable(Kind(last'.method)))]_vars

\* Two classes of the Open/Closed example declare the same ceiling.
SameCeiling(k1, k2) ==
    \A a \in LimitAmounts : WithinCeiling(k1, a) = WithinCeiling(k2, a)

\* C18: two kinds with the same capabilities and the same ceiling are
\* interchangeable: whatever a process call returned, the same call on any
\* other kind of the same ceiling returns the same and invokes the same
\* methods (the classes keep no state, so this extends to sequences).
C18_Substitutable ==
    (last.sys = "ocp" /\ last.op = "process") =>
        \A k2 \in OCPKinds :
            SameCeiling(last.method, k2) =>
                LET r == PaymentProcessor_process(k2, last.amount) IN
                r.ok = last.ok /\ r.why = last.why /\ r.calls = last.calls

C18_Witness ==
    /\ last.sys = "ocp" /\ last.method = "BitcoinPayment"
    /\ last.ok /\ last.amount > UPILimit
    /\ SameCeiling("BitcoinPayment", "PayPalPayment")
    /\ ~SameCeiling("BitcoinPayment", "UPIPayment")

\* C20: a call that returns false changes no balance and no payment record,
\* and computing the fees changes no balance.
C20_FailedCallChangesNothing ==
    [][/\ (nops' # nops /\ ~last'.ok) => (balance' = balance /\ txs' = txs)
       /\ (IsCall("process") /\ Invoked(last', "calculateFees"))
            => balance' = balance]_vars

C20_Witness ==
    /\ last.op = "process" /\ last.method = "giftCard"
    /\ ~last.ok /\ last.why = "insufficientBalance"
    /\ balance["giftCard"] = InitialBalance - 400
    /\ Len(txs) = 1

\* Number of times a call invoked a method.
RECURSIVE TimesInvoked(_, _)
TimesInvoked(calls, name) ==
    IF calls = <<>> THEN 0
    ELSE (IF Head(calls) = name THEN 1 ELSE 0) + TimesInvoked(Tail(calls), name)

\* C21: inside process, processPayment is invoked only after validatePayment
\* has accepted the amount, and never for an amount it rejects; a balance
\* changes only in a payment that succeeded, and a payment is recorded only
\* when it succeeded.
C21_OrderOfSteps ==
    [][IsCall("process") =>
         /\ (last'.sys = "ocp" /\ Invoked(last', "processPayment"))
              => (/\ last'.calls = <<"validatePayment", "processPayment">>
                  /\ last'.amount > 0
                  /\ WithinCeiling(last'.method, last'.amount))
         /\ (last'.sys = "ocp"
               /\ ~(last'.amount > 0 /\ WithinCeiling(last'.method, last'.amount)))
              => last'.calls = <<"validatePayment">>
         /\ balance' # balance => (last'.ok /\ Head(last'.calls) = "processPayment")
         /\ txs' # txs => (last'.ok /\ Len(txs') = Len(txs) + 1)]_vars

C21_Witness ==
    /\ last.sys = "ocp" /\ last.method = "UPIPayment"
    /\ last.amount = UPILimit /\ last.ok
    /\ last.calls = <<"validatePayment", "processPayment">>

C24_ProcessIffValid ==
    (last.sys = "ocp" /\ last.op = "process") =>
        /\ last.ok <=> (last.amount > 0 /\ WithinCeiling(last.method, last.amount))
        /\ TimesInvoked(last.calls, "processPayment") = (IF last.ok THEN 1 ELSE 0)

C24_Witness ==
    /\ last.sys = "ocp" /\ last.method = "CreditCardPayment"
    /\ last.amount = CreditCardLimit /\ last.ok
    /\ TimesInvoked(last.calls, "processPayment") = 1

\* C25: a gift card's balance is the initial balance minus the successful
\* payments plus the successful refunds, and therefore never exceeds the
\* initial balance (stated for payments and refunds of positive amounts).
C25_Conservation ==
    (last.amount > 0 /\ \A i \in 1 .. Len(txs) : txs[i].amount > 0) =>
        \A g \in GiftCards : balance[g] <= InitialBalance

\* C26: a process or refund call on one method leaves the balance of every
\* other method and the record of every payment of every other method
\* unchanged.
C26_OtherMethodsUnchanged ==
    [][(nops' # nops /\ last'.sys = "lsp") =>
         /\ \A g \in GiftCards \ {last'.method} : balance'[g] = balance[g]
         /\ \A i \in 1 .. Len(txs) :
              txs[i].method # last'.method => txs'[i] = txs[i]]_vars

C26_Witness ==
    /\ last.method = "giftCard2" /\ last.op = "refund" /\ last.ok
    /\ balance["giftCard"] = InitialBalance - 400
    /\ balance["giftCard2"] = InitialBalance
    /\ Len(txs) = 2

\* A step of the bank specification is a call on the account: acct' holds
\* the method called, its argument and what it returned.
BankCall(type) == acct.type = type /\ acct' # acct

IsWithdrawal(a) == a.op \in {"withdraw", "writeCheck"}

\* What SavingsAccount.withdraw and deposit do, as C27 states it.
SavingsCalls ==
    /\ acct'.op = "withdraw" =>
         IF acct'.amount <= 0 \/ acct.balance - acct'.amount < 500 * Unit
         THEN ~acct'.ok /\ acct'.balance = acct.balance
         ELSE acct'.ok /\ acct'.balance = acct.balance - acct'.amount
    /\ (acct'.op = "deposit" /\ acct'.amount <= 0) => acct'.balance = acct.balance

\* C27 as stated: a savings account opened with balance >= 500 is never below
\* 500 after deposit, withdraw and addInterest calls; withdraw returns false
\* and changes nothing when amount <= 0 or balance - amount < 500, otherwise
\* it lowers the balance by amount and returns true; a deposit of amount <= 0
\* changes nothing.
C27_SavingsMinimum_Original ==
    [][BankCall("Savings") =>
         (acct'.balance >= 500 * Unit /\ SavingsCalls)]_vars

\* C27, amended: the same for an account whose interest rate is not
\* negative; addInterest adds balance * interestRate, whatever the rate, and
\* deposit and withdraw never bring a balance of 500 or more below 500.
C27_SavingsMinimum ==
    [][BankCall("Savings") =>
         /\ acct.interestRate >= 0 => acct'.balance >= 500 * Unit
         /\ (acct.balance >= 500 * Unit /\ acct'.op # "addInterest")
              => acct'.balance >= 500 * Unit
         /\ acct'.op = "addInterest"
              => 100 * (acct'.balance - acct.balance)
                   = acct.balance * acct.interestRate
         /\ SavingsCalls]_vars

C27_Witness ==
    /\ acct.type = "Savings" /\ acct.interestRate = 3 /\ acct.interests = 1
    /\ acct.op = "withdraw" /\ acct.ok /\ acct.amount = 100 * Unit
    /\ acct.balance = 530 * Unit

\* C28: a checking account opened with balance >= -overdraftLimit is never
\* below -overdraftLimit after deposit, withdraw and writeCheck calls; a
\* successful withdraw of amount > 0 lowers the balance by amount + 2.50; a
\* rejected withdraw (amount <= 0, or balance - amount - fee below
\* -overdraftLimit) returns false and charges no fee.
C28_CheckingOverdraft ==
    [][(BankCall("Checking") \/ BankCall("Business")) =>
         /\ acct'.balance >= -acct.overdraftLimit
         /\ IsWithdrawal(acct') =>
              /\ acct'.ok => /\ acct'.amount > 0
                             /\ 2 * (acct.balance - acct'.balance)
                                  = 2 * acct'.amount + 5 * Unit
              /\ ~acct'.ok => acct'.balance = acct.balance
              /\ acct.type = "Checking" =>
                   (~acct'.ok <=>
                      \/ acct'.amount <= 0
                      \/ 2 * (acct.balance - acct'.amount) - 5 * Unit
                           < -2 * acct.overdraftLimit)
         /\ acct'.op = "deposit" => acct'.balance >= acct.balance]_vars

C28_Witness ==
    /\ acct.type = "Checking" /\ acct.op = "withdraw" /\ acct.ok
    /\ acct.balance = -acct.overdraftLimit

\* C29: a business account's transactionCount is always within 0 .. 100; a
\* successful withdraw or writeCheck adds exactly 1 to it and a failed one
\* leaves it unchanged; once it is 100 every withdraw and writeCheck returns
\* false and leaves the balance unchanged, until resetMonthlyCounters sets it
\* to 0.
C29_TransactionLimit ==
    [][BankCall("Business") =>
         /\ acct'.transactionCount \in 0 .. 100
         /\ IsWithdrawal(acct') =>
              /\ acct'.ok => acct'.transactionCount = acct.transactionCount + 1
              /\ ~acct'.ok => acct'.transactionCount = acct.transactionCount
              /\ acct.transactionCount = 100
                   => (~acct'.ok /\ acct'.balance = acct.balance)
         /\ acct'.op = "resetMonthlyCounters" => acct'.transactionCount = 0
         /\ acct'.op = "deposit"
              => acct'.transactionCount = acct.transactionCount]_vars

C29_Witness ==
    /\ acct.type = "Business" /\ acct.transactionCount = 100
    /\ acct.op = "writeCheck" /\ ~acct.ok /\ acct.amount > 0
    /\ acct.balance - acct.amount - transactionFee >= -acct.overdraftLimit

\* A step of the event bus specification is a call on the bus.
BusCall(op) == bus' # bus /\ bus'.op = op

\* on(event, handler) registers handler after the handlers of event, and
\* leaves the handlers of every other event.
Registers ==
    /\ Get(bus'.listeners, bus'.event)
         = Get(bus.listeners, bus'.event) \o <<bus'.handler>>
    /\ \A e \in Events \ {bus'.event} :
         Get(bus'.listeners, e) = Get(bus.listeners, e)
    /\ DOMAIN bus'.listeners = DOMAIN bus.listeners \cup {bus'.event}

\* C30 as stated: emit(event) calls every handler registered with on(event)
\* before the emit, once per registration and in registration order, and no
\* other handler; emit registers nothing.
C30_EmitCallsAll_Original ==
    [][/\ BusCall("on") => Registers
       /\ BusCall("emit") =>
            /\ bus'.called = Get(bus.listeners, bus'.event)
            /\ bus'.listeners = bus.listeners]_vars

\* C30, amended: emit(event) calls the handlers registered with on(event)
\* before the emit, once per registration and in registration order, up to
\* and including the first that throws; when none throws it calls every one.
\* It calls no other handler and registers nothing.
C30_EmitCallsInOrder ==
    [][/\ BusCall("on") => Registers
       /\ BusCall("emit") =>
            LET hs == Get(bus.listeners, bus'.event)
                c == bus'.called
                endsInThrow == Len(c) > 0 /\ Throws(c[Len(c)])
            IN /\ Len(c) <= Len(hs)
               /\ \A i \in 1 .. Len(c) : c[i] = hs[i]
               /\ \A i \in 1 .. Len(c) - 1 : ~Throws(c[i])
               /\ Len(c) < Len(hs) => endsInThrow
               /\ bus'.threw <=> endsInThrow
               /\ bus'.listeners = bus.listeners]_vars

C30_Witness ==
    /\ bus.op = "emit" /\ bus.event = "a" /\ bus.threw
    /\ Get(bus.listeners, "a") = <<"h1", "boom", "h2">>
    /\ bus.called = <<"h1", "boom">>

====
